---------------------------- MODULE Spec2Model ----------------------------
(***************************************************************************)
(* Smart-Event: the notification fan-out engine (functions/src/index.ts)   *)
(* and the client-side event operations (src/lib/firestore.ts) that feed   *)
(* it, as a state machine over the three Firestore collections, and the    *)
(* callable user-management functions over the users collection and the    *)
(* authentication accounts.                                                *)
(*                                                                         *)
(* Time is counted in units of 12 hours.  Document ids are strings.  A     *)
(* field that holds JavaScript null is Null, a field that is not set is    *)
(* Undefined.  Payload fields that no code path reads (creatorName,        *)
(* studentName, studentEmail, comment, createdAt) are left out of the      *)
(* documents.                                                              *)
(***************************************************************************)
EXTENDS Integers, Sequences, FiniteSets, TLC

VARIABLES
    users,          \* collection 'users':  uid -> user document
    events,         \* collection 'events': event id -> event document
    nextEventId,    \* how many auto ids addDoc has handed out
    clock,          \* server time in write ticks (serverTimestamp)
    triggers,       \* change events the store has published, with their runs
    sweeps,         \* invocations of the scheduled reminder job
    notifications,  \* collection 'notifications'
    resolved,       \* last result of a direct audience resolution
    detected,       \* last result of a direct critical-fields test
    calls,          \* calls of the client and callable operations, with results
    credentials     \* the uids that have an authentication account

vars == <<users, events, nextEventId, clock, triggers, sweeps, notifications,
          resolved, detected, calls, credentials>>

----------------------------------------------------------------------------
(* Bounds of the model *)

\* client writes and runs of the scheduled job in one behaviour
MaxOps == 3
\* event documents ever created (auto ids handed out)
MaxEvents == 1
\* deliveries of one change event to its handler (1 = no retry)
MaxDeliveries == 2
\* runs of the scheduled reminder job
MaxSweeps == 2
\* change events the store has published whose handler has not finished
MaxUnhandled == 1
\* user documents in a population drawn for audience resolution
MaxPopulation == 2
\* calls of the client operations in one behaviour
MaxCalls == 3
\* calls of the callable user-management functions in one behaviour
MaxAdminCalls == 2
\* calls of the client's notification operations in one behaviour
MaxInboxCalls == 2
\* register, unregister and feedback calls in one behaviour of the
\* specification that draws them from the wide inputs
MaxWideCalls == 2
\* operations the store accepts in one batch commit; stands for the
\* store's 500 (spec 4.3), scaled to the size of the modelled populations
BatchLimit == 3

----------------------------------------------------------------------------
(* Values *)

Null == "null"
Undefined == "undefined"

\* UserRole
ADMIN == "admin"
LECTURER == "lecturer"
STUDENT == "student"
UserRoles == {ADMIN, LECTURER, STUDENT}

\* AudienceType
GENERAL == "general"
DEPARTMENT == "department"
CLASS == "class"
AudienceTypes == {GENERAL, DEPARTMENT, CLASS}

\* NotificationType
EVENT_CREATED == "event_created"
EVENT_UPDATED == "event_updated"
EVENT_CANCELLED == "event_cancelled"
EVENT_REMINDER == "event_reminder"

Institutions == {"State University", "City College"}
Departments == {"Computer Science", "Mathematics"}
Classes == {"CS101", "CS450"}

\* 24 hours, in units of 12 hours
Day == 2

\* JavaScript truthiness of an optional string
Truthy(v) == v \notin {Undefined, Null, ""}

\* the elements of a sequence
Range(s) == {s[i] : i \in 1..Len(s)}

----------------------------------------------------------------------------
(* The users collection *)

\* Document ids in the order in which a query returns its documents
UidOrder == <<"admin", "alice", "bob", "carol", "dan", "erin", "lecturer">>
Uids == Range(UidOrder)

UserDoc(role, institution, department, class) ==
    [role |-> role, institution |-> institution,
     department |-> department, class |-> class]

\* The seeded users, and further students of two institutions
SeedUsers ==
    [u \in Uids |->
        CASE u = "admin"    -> UserDoc(ADMIN, "State University", Null, Null)
          [] u = "lecturer" -> UserDoc(LECTURER, "State University", Null, Null)
          [] u = "alice"    -> UserDoc(STUDENT, "State University", "Computer Science", "CS101")
          [] u = "bob"      -> UserDoc(STUDENT, "State University", "Mathematics", Null)
          [] u = "carol"    -> UserDoc(STUDENT, "State University", "Computer Science", "CS450")
          [] u = "dan"      -> UserDoc(STUDENT, "State University", Null, "CS101")
          [] u = "erin"     -> UserDoc(STUDENT, "City College", "Computer Science", "CS101")]

\* Department and class of a user, each possibly unset
Enrolments ==
    {<<Null, Null>>, <<"Computer Science", "CS101">>, <<"Computer Science", "CS450">>,
     <<"Mathematics", Null>>, <<"Mathematics", "CS101">>, <<Null, "CS101">>}

\* Every user document over the modelled field values
UserDocs ==
    {UserDoc(r, i, e[1], e[2]) : r \in UserRoles, i \in Institutions, e \in Enrolments}

\* Populations of MaxPopulation users, for resolving audiences directly
PopulationUids == {UidOrder[i] : i \in 2..(MaxPopulation + 1)}
Populations == [PopulationUids -> UserDocs]

\* TargetAudience descriptors, with the optional value set, empty or missing
Audience(type, value) == [type |-> type, value |-> value]
Audiences ==
    {Audience(GENERAL, Undefined)}
    \cup {Audience(DEPARTMENT, v) : v \in Departments \cup {"", Undefined}}
    \cup {Audience(CLASS, v) : v \in Classes \cup {"", Undefined}}

\* query.where(field, '==', value).get(): the documents, in id order, whose
\* field equals the value
WhereEq(coll, uids, field, value) ==
    SelectSeq(uids, LAMBDA u : coll[u][field] = value)

\* getTargetAudience without its institution filter
getTargetAudience_AnyInstitution(coll, institution, targetAudience) ==
    LET all == SelectSeq(UidOrder, LAMBDA u : u \in DOMAIN coll)
        q2 == WhereEq(coll, all, "role", STUDENT)
    IN  IF targetAudience.type = DEPARTMENT /\ Truthy(targetAudience.value)
          THEN WhereEq(coll, q2, "department", targetAudience.value)
        ELSE IF targetAudience.type = CLASS /\ Truthy(targetAudience.value)
          THEN WhereEq(coll, q2, "class", targetAudience.value)
        ELSE q2

\* getTargetAudience whose class branch queries the department field
getTargetAudience_ClassAsDepartment(coll, institution, targetAudience) ==
    LET all == SelectSeq(UidOrder, LAMBDA u : u \in DOMAIN coll)
        q1 == WhereEq(coll, all, "institution", institution)
        q2 == WhereEq(coll, q1, "role", STUDENT)
    IN  IF targetAudience.type \in {DEPARTMENT, CLASS} /\ Truthy(targetAudience.value)
          THEN WhereEq(coll, q2, "department", targetAudience.value)
        ELSE q2

\* getTargetAudience that filters on the value whether it is set or not
getTargetAudience_FiltersOnEmpty(coll, institution, targetAudience) ==
    LET all == SelectSeq(UidOrder, LAMBDA u : u \in DOMAIN coll)
        q1 == WhereEq(coll, all, "institution", institution)
        q2 == WhereEq(coll, q1, "role", STUDENT)
    IN  IF targetAudience.type = DEPARTMENT
          THEN WhereEq(coll, q2, "department", targetAudience.value)
        ELSE IF targetAudience.type = CLASS
          THEN WhereEq(coll, q2, "class", targetAudience.value)
        ELSE q2

\* getTargetAudience: the uids of snapshot.docs
getTargetAudience(coll, institution, targetAudience) ==
    LET all == SelectSeq(UidOrder, LAMBDA u : u \in DOMAIN coll)
        q1 == WhereEq(coll, all, "institution", institution)
        q2 == WhereEq(coll, q1, "role", STUDENT)
        q3 == IF targetAudience.type = DEPARTMENT /\ Truthy(targetAudience.value)
                THEN WhereEq(coll, q2, "department", targetAudience.value)
              ELSE IF targetAudience.type = CLASS /\ Truthy(targetAudience.value)
                THEN WhereEq(coll, q2, "class", targetAudience.value)
              ELSE q2
    IN  q3

----------------------------------------------------------------------------
(* The events collection and the client operations on it *)

\* Auto ids in the order addDoc hands them out; "e0" is the seeded event
NewEventIds == <<"e1", "e2", "e3", "e4">>
EventIds == {"e0"} \cup Range(NewEventIds)

\* `/events/${eventId}`
LinkTo(eventId) ==
    CASE eventId = "e0" -> "/events/e0"
      [] eventId = "e1" -> "/events/e1"
      [] eventId = "e2" -> "/events/e2"
      [] eventId = "e3" -> "/events/e3"
      [] eventId = "e4" -> "/events/e4"

\* Registration and Feedback entries as stored
Registration(studentId, registeredAt) ==
    [studentId |-> studentId, registeredAt |-> registeredAt]
Feedback(studentId, rating, submittedAt) ==
    [studentId |-> studentId, rating |-> rating, submittedAt |-> submittedAt]

\* The snapshot of a document that does not exist
NoDoc == [exists |-> FALSE]

\* An event of the mock database, with a scaled registration list
SeedEvents ==
    "e0" :> [title |-> "Fair", description |-> "d1", date |-> 1,
             location |-> "Hall A", creatorId |-> "admin",
             institution |-> "State University",
             targetAudience |-> Audience(GENERAL, Undefined),
             registrations |-> <<Registration("alice", 0), Registration("bob", 0),
                                 Registration("carol", 0)>>,
             feedback |-> <<>>, updatedAt |-> 0]

\* The collection with no document
EmptyCollection == [x \in {} |-> NoDoc]

\* Inputs of createEvent
EventInputs ==
    {[title |-> "Fair", description |-> "d1", date |-> d, location |-> "Hall A",
      creatorId |-> c, institution |-> SeedUsers[c].institution, targetAudience |-> a] :
        d \in {1}, c \in {"lecturer", "alice"},
        a \in {Audience(GENERAL, Undefined), Audience(DEPARTMENT, "Computer Science"),
               Audience(CLASS, "CS101"), Audience(DEPARTMENT, Undefined)}}
    \cup
    {[title |-> "Fair", description |-> "d1", date |-> 1, location |-> "Hall A",
      creatorId |-> "erin", institution |-> SeedUsers["erin"].institution,
      targetAudience |-> a] :
        a \in {Audience(GENERAL, Undefined), Audience(DEPARTMENT, "Mathematics")}}

\* Inputs of updateEvent: the partial documents
EventUpdates ==
    {[title |-> "Expo"], [location |-> "Hall B"], [date |-> 4], [description |-> "d2"]}

\* Students who register and give feedback, and the ratings they give
Registrants == {"alice", "bob"}
Ratings == {5}

\* The change event the store publishes for a committed write
Trigger(kind, eventId, before, after) ==
    [kind |-> kind, eventId |-> eventId, before |-> before, after |-> after,
     runs |-> <<>>]

\* updateDoc(ref, data): the document with the fields of data overwritten
UpdateDoc(doc, data) ==
    [f \in DOMAIN doc |-> IF f \in DOMAIN data THEN data[f] ELSE doc[f]]

\* arrayUnion(x): append x unless an equal element is present
ArrayUnion(arr, x) == IF x \in Range(arr) THEN arr ELSE Append(arr, x)

\* a removal that drops the last element of the array, whatever x is
ArrayRemove_Last(arr, x) == SubSeq(arr, 1, Len(arr) - 1)

\* arrayRemove(x): drop every element equal to x
ArrayRemove(arr, x) == SelectSeq(arr, LAMBDA y : y # x)

\* array.some(r => r.studentId === studentId)
SomeEntry(arr, studentId) == \E i \in 1..Len(arr) : arr[i].studentId = studentId

\* array.find(r => r.studentId === studentId), for an array that has one
FindEntry(arr, studentId) ==
    arr[CHOOSE i \in 1..Len(arr) :
            /\ arr[i].studentId = studentId
            /\ \A j \in 1..(i - 1) : arr[j].studentId # studentId]

\* The change events whose handler has not run to its end
Unhandled ==
    {i \in 1..Len(triggers) :
        \/ triggers[i].runs = <<>>
        \/ triggers[i].runs[Len(triggers[i].runs)].phase = "built"}

\* The repeated deliveries of change events: the runs after the first
Redeliveries ==
    UNION {{<<i, r>> : r \in 2..Len(triggers[i].runs)} : i \in 1..Len(triggers)}

\* The client writes, runs of the scheduled job and repeated deliveries so
\* far are within the bounds of the model
WithinOps == clock + Len(sweeps) + Cardinality(Redeliveries) < MaxOps

\* A client write is within the bounds of the model
WriteAllowed ==
    /\ WithinOps
    /\ Cardinality(Unhandled) < MaxUnhandled

\* updateDoc(eventRef, {...data, updatedAt: serverTimestamp()}) as the store
\* commits it: stamp, store, publish
UpdateStored(id, data) ==
    LET after == UpdateDoc(events[id], data @@ [updatedAt |-> clock + 1])
    IN  /\ WriteAllowed
        /\ clock' = clock + 1
        /\ events' = [events EXCEPT ![id] = after]
        /\ triggers' = Append(triggers, Trigger("updated", id, events[id], after))
        /\ UNCHANGED <<users, nextEventId, sweeps, notifications, resolved, detected,
                       credentials>>

\* A committed update of event id to doc by an operation taken as one step
WriteEvent(id, data) ==
    /\ UpdateStored(id, data)
    /\ UNCHANGED calls

createEvent(eventData) ==
    LET id == NewEventIds[nextEventId + 1]
        doc == eventData @@ [registrations |-> <<>>, feedback |-> <<>>,
                             updatedAt |-> clock + 1]
    IN  /\ WriteAllowed
        /\ nextEventId < MaxEvents
        /\ clock' = clock + 1
        /\ nextEventId' = nextEventId + 1
        /\ events' = (id :> doc) @@ events
        /\ triggers' = Append(triggers, Trigger("created", id, NoDoc, doc))
        /\ UNCHANGED <<users, sweeps, notifications, resolved, detected, calls, credentials>>

updateEvent(eventId, updates) ==
    /\ eventId \in DOMAIN events
    /\ WriteEvent(eventId, updates)

deleteEvent(eventId) ==
    /\ eventId \in DOMAIN events
    /\ WriteAllowed
    /\ clock' = clock + 1
    /\ events' = [e \in DOMAIN events \ {eventId} |-> events[e]]
    /\ triggers' = Append(triggers, Trigger("deleted", eventId, events[eventId], NoDoc))
    /\ UNCHANGED <<users, nextEventId, sweeps, notifications, resolved, detected, calls, credentials>>

registerForEvent(eventId, studentId) ==
    /\ eventId \in DOMAIN events
    /\ ~SomeEntry(events[eventId].registrations, studentId)
    /\ WriteEvent(eventId,
            [registrations |-> ArrayUnion(events[eventId].registrations,
                                          Registration(studentId, clock + 1))])

unregisterFromEvent(eventId, studentId) ==
    /\ eventId \in DOMAIN events
    /\ SomeEntry(events[eventId].registrations, studentId)
    /\ WriteEvent(eventId,
            [registrations |-> ArrayRemove(events[eventId].registrations,
                                  FindEntry(events[eventId].registrations, studentId))])

submitFeedback(eventId, studentId, rating) ==
    /\ eventId \in DOMAIN events
    /\ ~SomeEntry(events[eventId].feedback, studentId)
    /\ WriteEvent(eventId,
            [feedback |-> ArrayUnion(events[eventId].feedback,
                                     Feedback(studentId, rating, clock + 1))])

----------------------------------------------------------------------------
(* The notification fan-out: triggers and the scheduled job *)

\* snap.data(): the stored fields decoded into JavaScript values.  A stored
\* timestamp becomes a Timestamp object; every decoding allocates its own
\* objects, so the object carries the identity (ref) of its decoding.
Data(doc, ref) ==
    [f \in DOMAIN doc |->
        IF f = "date" THEN [instant |-> doc[f], ref |-> ref] ELSE doc[f]]

\* a !== b for two objects: they are not the same object
ObjectsNotIdentical(a, b) == a.ref # b.ref

\* the critical-fields test of onEventUpdated; title and location are strings
criticalFieldsChanged(before, after) ==
    \/ before.title # after.title
    \/ ObjectsNotIdentical(before.date, after.date)
    \/ before.location # after.location

\* The data of a notification document; inv and k are the invocation that
\* wrote it and its place in that invocation's batch (they make up the id)
Draft(userId, type, message, eventId, link) ==
    [userId |-> userId, type |-> type, message |-> message,
     eventId |-> eventId, link |-> link, isRead |-> FALSE]

NotificationDoc(inv, k, draft) ==
    [id |-> <<inv, k>>, inv |-> inv, userId |-> draft.userId, type |-> draft.type,
     message |-> draft.message, eventId |-> draft.eventId, link |-> draft.link,
     isRead |-> draft.isRead]

\* batch.commit() accepts the batch: the store is up and the batch is within
\* the store's limit
CommitSucceeds(batch, storeOk) == storeOk /\ Len(batch) <= BatchLimit

\* a commit that writes document by document and stops at the failure
BatchCommit_Partial(coll, inv, batch, storeOk) ==
    IF CommitSucceeds(batch, storeOk)
    THEN coll \cup {NotificationDoc(inv, k, batch[k]) : k \in 1..Len(batch)}
    ELSE coll \cup {NotificationDoc(inv, k, batch[k]) : k \in 1..(Len(batch) - 1)}

\* a commit that skips a notification whose user, type and event already
\* have a record
BatchCommit_Deduplicating(coll, inv, batch, storeOk) ==
    IF CommitSucceeds(batch, storeOk)
    THEN coll \cup {NotificationDoc(inv, k, batch[k]) :
                        k \in {j \in 1..Len(batch) :
                                 ~\E n \in coll : /\ n.userId = batch[j].userId
                                                   /\ n.type = batch[j].type
                                                   /\ n.message = batch[j].message}}
    ELSE coll

\* batch.commit(): all of the batch's documents are written, or none
BatchCommit(coll, inv, batch, storeOk) ==
    IF CommitSucceeds(batch, storeOk)
    THEN coll \cup {NotificationDoc(inv, k, batch[k]) : k \in 1..Len(batch)}
    ELSE coll

\* a catch block that throws the error on
CatchAndLog_Rethrow(error) == error

\* catch (error) { console.error(..., error) }: the block ends without a
\* throw, so no error leaves the handler
CatchAndLog(error) == Null

\* What leaves the handler at the end of a run: a rejected await inside the
\* try block (phase "error" or "failed") lands in the catch block
Thrown(phase) == IF phase \in {"error", "failed"} THEN CatchAndLog(phase) ELSE Null

\* One invocation of a handler: where it is, the batch it built, the sizes
\* of the commits it attempted and the error it let out
Run(phase, batch, commits) ==
    [phase |-> phase, batch |-> batch, commits |-> commits, thrown |-> Thrown(phase)]

\* the phase of a run after its commit
Committed(batch, storeOk) ==
    Run(IF CommitSucceeds(batch, storeOk) THEN "committed" ELSE "failed",
        batch, <<Len(batch)>>)

\* the invocation id of run r of trigger i, and of sweep j
TriggerInv(i, r) == <<"trigger", i, r>>
SweepInv(j) == <<"sweep", j, 1>>

\* A trigger can be delivered (again) when no run of it is in flight
Deliverable(i, kind) ==
    /\ triggers[i].kind = kind
    /\ Len(triggers[i].runs) < MaxDeliveries
    /\ Len(triggers[i].runs) > 0 => WithinOps
    /\ \A r \in 1..Len(triggers[i].runs) : triggers[i].runs[r].phase # "built"

\* onEventCreated's loop without its skip of the creator
CreatedBatch_KeepsCreator(usersToNotify, event, eventId) ==
    [k \in 1..Len(usersToNotify) |->
        Draft(usersToNotify[k], EVENT_CREATED, <<"New event: ", event.title>>,
              eventId, LinkTo(eventId))]

\* onEventCreated's loop: one event_created draft per user but the creator
CreatedBatch(usersToNotify, event, eventId) ==
    LET kept == SelectSeq(usersToNotify, LAMBDA uid : uid # event.creatorId)
    IN  [k \in 1..Len(kept) |->
            Draft(kept[k], EVENT_CREATED, <<"New event: ", event.title>>,
                  eventId, LinkTo(eventId))]

\* onEventUpdated's loop over the re-resolved audience
UpdatedBatch_FromAudience(registrations, after, eventId) ==
    LET audience == getTargetAudience(users, after.institution, after.targetAudience)
    IN  [k \in 1..Len(audience) |->
            Draft(audience[k], EVENT_UPDATED,
                  <<"Event has been updated: ", after.title>>, eventId, LinkTo(eventId))]

\* onEventUpdated's loop: one event_updated draft per registration
UpdatedBatch(registrations, after, eventId) ==
    [k \in 1..Len(registrations) |->
        Draft(registrations[k].studentId, EVENT_UPDATED,
              <<"Event has been updated: ", after.title>>, eventId, LinkTo(eventId))]

\* onEventDeleted's loop starting at the second registration
CancelledBatch_SkipsFirst(registrations, event) ==
    [k \in 1..(Len(registrations) - 1) |->
        Draft(registrations[k + 1].studentId, EVENT_CANCELLED,
              <<"Event has been cancelled: ", event.title>>, Null, Null)]

\* onEventDeleted's loop: one event_cancelled draft per registration
CancelledBatch(registrations, event) ==
    [k \in 1..Len(registrations) |->
        Draft(registrations[k].studentId, EVENT_CANCELLED,
              <<"Event has been cancelled: ", event.title>>, Null, Null)]

\* onEventCreated up to its commit: resolve the audience and build the batch
onEventCreatedResolve(i, readOk) ==
    LET event == Data(triggers[i].after, "snap")
        eventId == triggers[i].eventId
        usersToNotify == getTargetAudience(users, event.institution, event.targetAudience)
        run == IF readOk
                 THEN Run("built", CreatedBatch(usersToNotify, event, eventId), <<>>)
                 ELSE Run("error", <<>>, <<>>)
    IN  /\ Deliverable(i, "created")
        /\ triggers' = [triggers EXCEPT ![i].runs = Append(@, run)]
        /\ UNCHANGED <<users, events, nextEventId, clock, sweeps, notifications, resolved, detected, calls, credentials>>

\* onEventCreated's commit, and what follows it
onEventCreatedCommit(i, storeOk) ==
    /\ triggers[i].kind = "created"
    /\ Len(triggers[i].runs) > 0
    /\ LET r == Len(triggers[i].runs)
            run == triggers[i].runs[r]
        IN  /\ run.phase = "built"
            /\ notifications' = BatchCommit(notifications, TriggerInv(i, r), run.batch, storeOk)
            /\ triggers' = [triggers EXCEPT ![i].runs[r] = Committed(run.batch, storeOk)]
    /\ UNCHANGED <<users, events, nextEventId, clock, sweeps, resolved, detected, calls, credentials>>

\* onEventUpdated, whole: it awaits nothing but its commit
onEventUpdated(i, storeOk) ==
    LET before == Data(triggers[i].before, "before")
        after == Data(triggers[i].after, "after")
        eventId == triggers[i].eventId
        r == Len(triggers[i].runs) + 1
        registrations == after.registrations
        batch == UpdatedBatch(registrations, after, eventId)
        run == IF ~criticalFieldsChanged(before, after) THEN Run("not_critical", <<>>, <<>>)
               ELSE IF Len(registrations) = 0 THEN Run("no_registrations", <<>>, <<>>)
               ELSE Committed(batch, storeOk)
    IN  /\ Deliverable(i, "updated")
        /\ notifications' = IF run.commits # <<>>
                              THEN BatchCommit(notifications, TriggerInv(i, r), batch, storeOk)
                              ELSE notifications
        /\ triggers' = [triggers EXCEPT ![i].runs = Append(@, run)]
        /\ UNCHANGED <<users, events, nextEventId, clock, sweeps, resolved, detected, calls, credentials>>

\* onEventDeleted without its return on an empty registrations list
onEventDeleted_NoEarlyReturn(i, storeOk) ==
    LET event == Data(triggers[i].before, "snap")
        r == Len(triggers[i].runs) + 1
        batch == CancelledBatch(event.registrations, event)
    IN  /\ Deliverable(i, "deleted")
        /\ notifications' = BatchCommit(notifications, TriggerInv(i, r), batch, storeOk)
        /\ triggers' = [triggers EXCEPT ![i].runs = Append(@, Committed(batch, storeOk))]
        /\ UNCHANGED <<users, events, nextEventId, clock, sweeps, resolved, detected, calls, credentials>>

\* onEventDeleted, whole
onEventDeleted(i, storeOk) ==
    LET event == Data(triggers[i].before, "snap")
        r == Len(triggers[i].runs) + 1
        registrations == event.registrations
        batch == CancelledBatch(registrations, event)
        run == IF Len(registrations) = 0 THEN Run("no_registrations", <<>>, <<>>)
               ELSE Committed(batch, storeOk)
    IN  /\ Deliverable(i, "deleted")
        /\ notifications' = IF run.commits # <<>>
                              THEN BatchCommit(notifications, TriggerInv(i, r), batch, storeOk)
                              ELSE notifications
        /\ triggers' = [triggers EXCEPT ![i].runs = Append(@, run)]
        /\ UNCHANGED <<users, events, nextEventId, clock, sweeps, resolved, detected, calls, credentials>>

\* Event ids in document-id order
EventOrder == <<"e0", "e1", "e2", "e3", "e4">>

\* Times at which the scheduler fires the reminder job
SweepTimes == {0, 1, 2}

\* the range query with its upper bound exclusive
RECURSIVE DateRange_OpenEnd(_, _, _)
DateRange_OpenEnd(coll, from, to) ==
    IF from >= to THEN <<>>
    ELSE SelectSeq(EventOrder, LAMBDA e : e \in DOMAIN coll /\ coll[e].date = from)
         \o DateRange_OpenEnd(coll, from + 1, to)

\* The ids of the documents of
\* events.where('date', '>=', from).where('date', '<=', to).get(),
\* which come ordered by date and then by id
RECURSIVE DateRange(_, _, _)
DateRange(coll, from, to) ==
    IF from > to THEN <<>>
    ELSE SelectSeq(EventOrder, LAMBDA e : e \in DOMAIN coll /\ coll[e].date = from)
         \o DateRange(coll, from + 1, to)

\* sendEventReminders' loops: one event_reminder draft per registration of
\* every matching event
RECURSIVE ReminderBatch(_, _)
ReminderBatch(coll, docs) ==
    IF docs = <<>> THEN <<>>
    ELSE LET id == Head(docs)
             event == coll[id]
             registrations == event.registrations
         IN  [k \in 1..Len(registrations) |->
                 Draft(registrations[k].studentId, EVENT_REMINDER,
                       <<"Reminder: ", event.title>>, id, LinkTo(id))]
             \o ReminderBatch(coll, Tail(docs))

\* sendEventReminders up to its commit: query the window, build the batch
sendEventRemindersQuery(now, readOk) ==
    LET tomorrow == now + Day
        docs == DateRange(events, now, tomorrow)
        batch == ReminderBatch(events, docs)
        phase == IF ~readOk THEN "error"
                 ELSE IF docs = <<>> THEN "no_events"
                 ELSE IF Len(batch) = 0 THEN "no_registrations"
                 ELSE "built"
        run == [phase |-> phase, batch |-> IF phase = "built" THEN batch ELSE <<>>,
                commits |-> <<>>, thrown |-> Thrown(phase), now |-> now,
                docs |-> IF readOk THEN docs ELSE <<>>]
    IN  /\ Len(sweeps) < MaxSweeps
        /\ WithinOps
        /\ \A j \in 1..Len(sweeps) : sweeps[j].phase # "built"
        /\ sweeps' = Append(sweeps, run)
        /\ UNCHANGED <<users, events, nextEventId, clock, triggers, notifications, resolved, detected, calls, credentials>>

\* a commit of the reminders that also stamps the reminded events
sendEventRemindersCommit_StampsEvents(j, storeOk) ==
    /\ sweeps[j].phase = "built"
    /\ notifications' = BatchCommit(notifications, SweepInv(j), sweeps[j].batch, storeOk)
    /\ sweeps' = [sweeps EXCEPT
                    ![j].phase = Committed(sweeps[j].batch, storeOk).phase,
                    ![j].commits = Committed(sweeps[j].batch, storeOk).commits,
                    ![j].thrown = Committed(sweeps[j].batch, storeOk).thrown]
    /\ events' = [e \in DOMAIN events |->
                    IF CommitSucceeds(sweeps[j].batch, storeOk) /\ e \in Range(sweeps[j].docs)
                      THEN [events[e] EXCEPT !.updatedAt = clock + 1]
                      ELSE events[e]]
    /\ UNCHANGED <<users, nextEventId, clock, triggers, resolved, detected, calls, credentials>>

\* sendEventReminders' commit
sendEventRemindersCommit(j, storeOk) ==
    /\ sweeps[j].phase = "built"
    /\ notifications' = BatchCommit(notifications, SweepInv(j), sweeps[j].batch, storeOk)
    /\ sweeps' = [sweeps EXCEPT
                    ![j].phase = Committed(sweeps[j].batch, storeOk).phase,
                    ![j].commits = Committed(sweeps[j].batch, storeOk).commits,
                    ![j].thrown = Committed(sweeps[j].batch, storeOk).thrown]
    /\ UNCHANGED <<users, events, nextEventId, clock, triggers, resolved, detected, calls, credentials>>

----------------------------------------------------------------------------
(* The fan-out engine fed by the client operations *)

NotResolved == [institution |-> Null]
NotDetected == [phase |-> "none"]

Init ==
    /\ users = SeedUsers
    /\ events \in {EmptyCollection, SeedEvents}
    /\ nextEventId = 0
    /\ clock = 0
    /\ triggers = <<>>
    /\ sweeps = <<>>
    /\ notifications = {}
    /\ resolved = NotResolved
    /\ detected = NotDetected
    /\ calls = <<>>
    /\ credentials = DOMAIN users

CreateEvent == \E eventData \in EventInputs : createEvent(eventData)
UpdateEvent == \E id \in EventIds, updates \in EventUpdates : updateEvent(id, updates)
DeleteEvent == \E id \in EventIds : deleteEvent(id)
RegisterForEvent == \E id \in EventIds, s \in Registrants : registerForEvent(id, s)
UnregisterFromEvent == \E id \in EventIds, s \in Registrants : unregisterFromEvent(id, s)
SubmitFeedback ==
    \E id \in EventIds, s \in Registrants, rating \in Ratings : submitFeedback(id, s, rating)
OnEventCreatedResolve ==
    \E i \in 1..Len(triggers), readOk \in BOOLEAN : onEventCreatedResolve(i, readOk)
OnEventCreatedCommit ==
    \E i \in 1..Len(triggers), storeOk \in BOOLEAN : onEventCreatedCommit(i, storeOk)
OnEventUpdated == \E i \in 1..Len(triggers), storeOk \in BOOLEAN : onEventUpdated(i, storeOk)
OnEventDeleted == \E i \in 1..Len(triggers), storeOk \in BOOLEAN : onEventDeleted(i, storeOk)
SendEventRemindersQuery ==
    \E now \in SweepTimes, readOk \in BOOLEAN : sendEventRemindersQuery(now, readOk)
SendEventRemindersCommit ==
    \E j \in 1..Len(sweeps), storeOk \in BOOLEAN : sendEventRemindersCommit(j, storeOk)

Next ==
    \/ CreateEvent
    \/ UpdateEvent
    \/ DeleteEvent
    \/ RegisterForEvent
    \/ UnregisterFromEvent
    \/ SubmitFeedback
    \/ OnEventCreatedResolve
    \/ OnEventCreatedCommit
    \/ OnEventUpdated
    \/ OnEventDeleted
    \/ SendEventRemindersQuery
    \/ SendEventRemindersCommit

Spec == Init /\ [][Next]_vars

----------------------------------------------------------------------------
(* The fan-out engine with a store that does not fail and triggers that are *)
(* delivered                                                                *)

\* The handler of change event i takes a step and no read or write of it
\* is failed by the store
DeliverOk(i) ==
    /\ i <= Len(triggers)
    /\ \/ onEventCreatedResolve(i, TRUE)
       \/ onEventCreatedCommit(i, TRUE)
       \/ onEventUpdated(i, TRUE)
       \/ onEventDeleted(i, TRUE)

NextLive ==
    \/ CreateEvent
    \/ UpdateEvent
    \/ DeleteEvent
    \/ RegisterForEvent
    \/ UnregisterFromEvent
    \/ SubmitFeedback
    \/ \E i \in 1..MaxOps : DeliverOk(i)

\* The platform invokes the handler of every change event it has published,
\* and an invocation that has started goes on to its end
SpecLive == Init /\ [][NextLive]_vars /\ \A i \in 1..MaxOps : WF_vars(DeliverOk(i))

----------------------------------------------------------------------------
(* Audience resolution on its own, over every population *)

InitResolve ==
    /\ users \in Populations
    /\ events = EmptyCollection
    /\ nextEventId = 0
    /\ clock = 0
    /\ triggers = <<>>
    /\ sweeps = <<>>
    /\ notifications = {}
    /\ resolved = NotResolved
    /\ detected = NotDetected
    /\ calls = <<>>
    /\ credentials = DOMAIN users

Resolve ==
    \E institution \in Institutions, audience \in Audiences :
        /\ resolved = NotResolved
        /\ resolved' = [institution |-> institution, audience |-> audience,
                        uids |-> getTargetAudience(users, institution, audience)]
        /\ UNCHANGED <<users, events, nextEventId, clock, triggers, sweeps, notifications,
                       detected, calls, credentials>>

NextResolve == Resolve

SpecResolve == InitResolve /\ [][NextResolve]_vars

----------------------------------------------------------------------------
(* The critical-fields test on its own, over pairs of snapshots *)

\* Versions of one event document
Snapshots ==
    {[title |-> t, description |-> d, date |-> at, location |-> l,
      creatorId |-> "lecturer", institution |-> "State University",
      targetAudience |-> a, registrations |-> r, feedback |-> <<>>, updatedAt |-> u] :
        t \in {"Fair", "Expo"}, d \in {"d1", "d2"}, at \in {1, 4},
        l \in {"Hall A", "Hall B"},
        a \in {Audience(GENERAL, Undefined), Audience(CLASS, "CS101")},
        r \in {<<>>, <<Registration("alice", 1)>>}, u \in {1, 2}}

InitDetect ==
    /\ users = SeedUsers
    /\ events = EmptyCollection
    /\ nextEventId = 0
    /\ clock = 0
    /\ triggers = <<>>
    /\ sweeps = <<>>
    /\ notifications = {}
    /\ resolved = NotResolved
    /\ detected \in [phase : {"input"}, before : Snapshots, after : Snapshots,
                      critical : {FALSE}]
    /\ calls = <<>>
    /\ credentials = DOMAIN users

Detect ==
    /\ detected.phase = "input"
    /\ detected' = [detected EXCEPT
                      !.phase = "done",
                      !.critical = criticalFieldsChanged(Data(detected.before, "before"),
                                                         Data(detected.after, "after"))]
    /\ UNCHANGED <<users, events, nextEventId, clock, triggers, sweeps,
                   notifications, resolved, calls, credentials>>

NextDetect == Detect

SpecDetect == InitDetect /\ [][NextDetect]_vars

----------------------------------------------------------------------------
(* The scheduled reminder job on its own, over stores of two events *)

\* Registration lists of an event
RegistrationLists ==
    {<<>>, <<Registration("alice", 0)>>,
     <<Registration("alice", 0), Registration("bob", 0)>>}

\* Event dates: before, inside and after the windows of SweepTimes
SweepDates == 0..5

\* An event of the store with its date and registrations set
SweepEvent(date, registrations) ==
    UpdateDoc(SeedEvents["e0"], [date |-> date, registrations |-> registrations])

\* Stores of two events
SweepStores ==
    {("e0" :> SweepEvent(d0, r0)) @@ ("e1" :> SweepEvent(d1, r1)) :
        d0 \in SweepDates, d1 \in SweepDates,
        r0 \in RegistrationLists, r1 \in RegistrationLists}

InitSweep ==
    /\ users = SeedUsers
    /\ events \in SweepStores \cup {EmptyCollection}
    /\ nextEventId = 0
    /\ clock = 0
    /\ triggers = <<>>
    /\ sweeps = <<>>
    /\ notifications = {}
    /\ resolved = NotResolved
    /\ detected = NotDetected
    /\ calls = <<>>
    /\ credentials = DOMAIN users

NextSweep ==
    \/ SendEventRemindersQuery
    \/ SendEventRemindersCommit

SpecSweep == InitSweep /\ [][NextSweep]_vars

----------------------------------------------------------------------------
(* The registration and feedback operations of the client, step by step:  *)
(* each awaits getDoc, and then awaits updateDoc                          *)

\* ErrorCode of the AppError a call rejects with; OK for a call that resolves
UNAUTHORIZED == "unauthorized"
NOT_FOUND == "not_found"
ALREADY_EXISTS == "already_exists"
INTERNAL_ERROR == "internal_error"
OK == "ok"
Pending == "pending"

\* Inputs of the calls: the signed-in user (Null: none), the event, the
\* student named in the registration or feedback, the rating
CallUsers == {"alice"}
CallEventIds == {"e0"}
CallStudents == Registrants

\* The event the calls are made on, with its registrations at the start
CallStores ==
    {"e0" :> UpdateDoc(SeedEvents["e0"], [registrations |-> r]) :
        r \in {<<>>, <<Registration("alice", 0)>>}}

\* Time in steps of calls: every call counts when it starts and when it ends
Tick == Len(calls) + Cardinality({c \in 1..Len(calls) : calls[c].phase = "done"})

\* getDoc(ref): the stored document, or the snapshot of none
getDoc(coll, id) == IF id \in DOMAIN coll THEN coll[id] ELSE NoDoc

\* a checkAuth that lets a call without a signed-in user through
checkAuth_AnyCaller(currentUser) == OK

\* checkAuth: throws UNAUTHORIZED when auth.currentUser is null
checkAuth(currentUser) == IF currentUser = Null THEN UNAUTHORIZED ELSE OK

\* A call of op: its arguments, where it is, the snapshot its getDoc
\* returned, how it ended, and for the record when it started and ended and
\* the stored document just before and just after its last step
Call(op, eventId, studentId, rating, phase, snap, result) ==
    [op |-> op, eventId |-> eventId, studentId |-> studentId, rating |-> rating,
     phase |-> phase, snap |-> snap, result |-> result,
     readAt |-> Tick + 1, doneAt |-> IF phase = "done" THEN Tick + 1 ELSE 0,
     before |-> NoDoc, after |-> NoDoc]

\* checkAuth(); await getDoc(eventRef): the first step of registerForEvent,
\* unregisterFromEvent and submitFeedback
ReadEvent(op, currentUser, eventId, studentId, rating) ==
    /\ Len(calls) < MaxCalls
    /\ calls' = Append(calls,
          [auth |-> currentUser] @@
          IF checkAuth(currentUser) # OK
            THEN Call(op, eventId, studentId, rating, "done", NoDoc, checkAuth(currentUser))
            ELSE Call(op, eventId, studentId, rating, "read",
                      getDoc(events, eventId), Pending))
    /\ UNCHANGED <<users, events, nextEventId, clock, triggers, sweeps, notifications,
                   resolved, detected, credentials>>

\* The call c has ended with result, the store going from events to stored
Ended(c, result, stored) ==
    [calls EXCEPT ![c].phase = "done", ![c].result = result, ![c].doneAt = Tick + 1,
                  ![c].before = getDoc(events, calls[c].eventId),
                  ![c].after = getDoc(stored, calls[c].eventId)]

\* throw new AppError(code, ...): the call rejects and has written nothing
Throw(c, code) ==
    /\ calls' = Ended(c, code, events)
    /\ UNCHANGED <<users, events, nextEventId, clock, triggers, sweeps, notifications,
                   resolved, detected, credentials>>

\* await updateDoc(eventRef, data): rejects when the document is gone (the
\* catch block turns that into INTERNAL_ERROR), else the store commits it
AwaitUpdateDoc(c, data) ==
    IF calls[c].eventId \notin DOMAIN events
    THEN Throw(c, INTERNAL_ERROR)
    ELSE /\ UpdateStored(calls[c].eventId, data)
         /\ calls' = Ended(c, OK, events')

\* registerForEvent that writes back the list it read with the new entry
\* appended
registerForEventWrite_ReadModifyWrite(c) ==
    LET call == calls[c]
    IN  /\ call.phase = "read"
        /\ call.op = "register"
        /\ IF call.snap = NoDoc THEN Throw(c, NOT_FOUND)
           ELSE IF SomeEntry(call.snap.registrations, call.studentId)
             THEN Throw(c, ALREADY_EXISTS)
           ELSE AwaitUpdateDoc(c,
                  [registrations |->
                      Append(call.snap.registrations,
                             Registration(call.studentId, clock + 1))])

\* registerForEvent without its test for an entry of the student
registerForEventWrite_NoCheck(c) ==
    LET call == calls[c]
    IN  /\ call.phase = "read"
        /\ call.op = "register"
        /\ IF call.snap = NoDoc THEN Throw(c, NOT_FOUND)
           ELSE AwaitUpdateDoc(c,
                  [registrations |->
                      ArrayUnion(getDoc(events, call.eventId).registrations,
                                 Registration(call.studentId, clock + 1))])

\* registerForEvent after its getDoc: the checks on the snapshot, then the
\* update with arrayUnion of the new entry, stamped by the server
registerForEventWrite(c) ==
    LET call == calls[c]
    IN  /\ call.phase = "read"
        /\ call.op = "register"
        /\ IF call.snap = NoDoc THEN Throw(c, NOT_FOUND)
           ELSE IF SomeEntry(call.snap.registrations, call.studentId)
             THEN Throw(c, ALREADY_EXISTS)
           ELSE AwaitUpdateDoc(c,
                  [registrations |->
                      ArrayUnion(getDoc(events, call.eventId).registrations,
                                 Registration(call.studentId, clock + 1))])

\* unregisterFromEvent after its getDoc: arrayRemove of the entry found in
\* the snapshot
unregisterFromEventWrite(c) ==
    LET call == calls[c]
    IN  /\ call.phase = "read"
        /\ call.op = "unregister"
        /\ IF call.snap = NoDoc THEN Throw(c, NOT_FOUND)
           ELSE IF ~SomeEntry(call.snap.registrations, call.studentId)
             THEN Throw(c, NOT_FOUND)
           ELSE AwaitUpdateDoc(c,
                  [registrations |->
                      ArrayRemove(getDoc(events, call.eventId).registrations,
                                  FindEntry(call.snap.registrations, call.studentId))])

\* submitFeedback that replaces the student's earlier entry
submitFeedbackWrite_Overwrite(c) ==
    LET call == calls[c]
        kept == SelectSeq(getDoc(events, call.eventId).feedback,
                          LAMBDA f : f.studentId # call.studentId)
    IN  /\ call.phase = "read"
        /\ call.op = "feedback"
        /\ IF call.snap = NoDoc THEN Throw(c, NOT_FOUND)
           ELSE AwaitUpdateDoc(c,
                  [feedback |->
                      ArrayUnion(kept, Feedback(call.studentId, call.rating, clock + 1))])

\* submitFeedback after its getDoc
submitFeedbackWrite(c) ==
    LET call == calls[c]
    IN  /\ call.phase = "read"
        /\ call.op = "feedback"
        /\ IF call.snap = NoDoc THEN Throw(c, NOT_FOUND)
           ELSE IF SomeEntry(call.snap.feedback, call.studentId)
             THEN Throw(c, ALREADY_EXISTS)
           ELSE AwaitUpdateDoc(c,
                  [feedback |->
                      ArrayUnion(getDoc(events, call.eventId).feedback,
                                 Feedback(call.studentId, call.rating, clock + 1))])

InitRegister ==
    /\ users = SeedUsers
    /\ events \in CallStores
    /\ nextEventId = 0
    /\ clock = 0
    /\ triggers = <<>>
    /\ sweeps = <<>>
    /\ notifications = {}
    /\ resolved = NotResolved
    /\ detected = NotDetected
    /\ calls = <<>>
    /\ credentials = DOMAIN users

RegisterRead ==
    \E u \in CallUsers, id \in CallEventIds, s \in CallStudents :
        ReadEvent("register", u, id, s, Null)
RegisterWrite == \E c \in 1..Len(calls) : registerForEventWrite(c)
UnregisterRead ==
    \E u \in CallUsers, id \in CallEventIds, s \in CallStudents :
        ReadEvent("unregister", u, id, s, Null)
UnregisterWrite == \E c \in 1..Len(calls) : unregisterFromEventWrite(c)
FeedbackRead ==
    \E u \in CallUsers, id \in CallEventIds, s \in CallStudents, rating \in Ratings :
        ReadEvent("feedback", u, id, s, rating)
FeedbackWrite == \E c \in 1..Len(calls) : submitFeedbackWrite(c)

NextRegister ==
    \/ RegisterRead
    \/ RegisterWrite
    \/ UnregisterRead
    \/ UnregisterWrite
    \/ FeedbackRead
    \/ FeedbackWrite
    \/ OnEventUpdated

SpecRegister == InitRegister /\ [][NextRegister]_vars

----------------------------------------------------------------------------
(* The same calls with every kind of argument: no signed-in user, an event *)
(* that does not exist, ratings off the scale                              *)

WideUsers == {"alice", Null}
WideEventIds == {"e0", "e1"}
WideRatings == {0, 3, 6}

WideRegisterRead ==
    /\ Len(calls) < MaxWideCalls
    /\ \E u \in WideUsers, id \in WideEventIds, s \in CallStudents :
          ReadEvent("register", u, id, s, Null)
WideUnregisterRead ==
    /\ Len(calls) < MaxWideCalls
    /\ \E u \in WideUsers, id \in WideEventIds, s \in CallStudents :
          ReadEvent("unregister", u, id, s, Null)
WideFeedbackRead ==
    /\ Len(calls) < MaxWideCalls
    /\ \E u \in WideUsers, id \in WideEventIds, s \in CallStudents, rating \in WideRatings :
          ReadEvent("feedback", u, id, s, rating)

NextWide ==
    \/ WideRegisterRead
    \/ RegisterWrite
    \/ WideUnregisterRead
    \/ UnregisterWrite
    \/ WideFeedbackRead
    \/ FeedbackWrite

SpecWide == InitRegister /\ [][NextWide]_vars

----------------------------------------------------------------------------
(* The callable user-management functions createUser and deleteUser *)

\* The code of the HttpsError a callable rejects with, as its caller sees it
UNAUTHENTICATED == "unauthenticated"
PERMISSION_DENIED == "permission-denied"
INVALID_ARGUMENT == "invalid-argument"
INTERNAL == "internal"

\* Uids in the order admin.auth().createUser hands them out
NewUids == <<"u1", "u2", "u3">>

\* context.auth of a call: none, the admin, a lecturer, and an account that
\* has no user document
Callers == {Null, "admin", "lecturer", "ghost"}

\* data of createUser; an institution in it is not read
CreateUserInputs ==
    {[role |-> STUDENT, institution |-> "City College", department |-> d,
      class |-> Null] :
        d \in {"Computer Science", ""}}

\* data.userId of deleteUser: the admin, a student of the admin's
\* institution, a student of another institution, no user
DeleteUserTargets == {"admin", "bob", "erin", "nobody"}

\* users.doc(uid).get(): the stored user, or the snapshot of none, whose
\* data() is undefined
UserData(uid) == IF uid \in DOMAIN users THEN users[uid] ELSE NoDoc

\* value || null
OrNull(v) == IF Truthy(v) THEN v ELSE Null

\* the check of context.auth placed inside the try block
AuthCheck_InsideTry(auth) == IF auth = Null THEN INTERNAL ELSE OK

\* if (!context.auth) throw new HttpsError('unauthenticated', ...), which
\* stands before the try block
AuthCheck(auth) == IF auth = Null THEN UNAUTHENTICATED ELSE OK

\* catch (error) { throw new HttpsError('internal', error.message || ...) }:
\* whatever was thrown inside the try block, an HttpsError included, leaves
\* the function with code 'internal'
CallableCatch(code) == INTERNAL

\* The record of a call with the state it found and the state it left
AdminCall(op, auth, data, code, usersAfter, credentialsAfter) ==
    [op |-> op, auth |-> auth, data |-> data, code |-> code,
     before |-> [users |-> users, credentials |-> credentials],
     after |-> [users |-> usersAfter, credentials |-> credentialsAfter]]

\* The end of a call: what it leaves in the two stores, and its code
Reply(op, auth, data, code, usersAfter, credentialsAfter) ==
    /\ users' = usersAfter
    /\ credentials' = credentialsAfter
    /\ calls' = Append(calls, AdminCall(op, auth, data, code, usersAfter, credentialsAfter))
    /\ UNCHANGED <<events, nextEventId, clock, triggers, sweeps, notifications,
                   resolved, detected>>

\* createUser; authOk and storeOk tell whether admin.auth().createUser and
\* the set of the user document succeed
createUser(auth, data, authOk, storeOk) ==
    LET caller == UserData(auth)
        uid == NewUids[Cardinality(credentials \cap Range(NewUids)) + 1]
        record == UserDoc(data.role, caller.institution,
                          OrNull(data.department), OrNull(data.class))
    IN  /\ Len(calls) < MaxAdminCalls
        /\ IF AuthCheck(auth) # OK
             THEN Reply("createUser", auth, data, AuthCheck(auth), users, credentials)
           ELSE IF caller = NoDoc \/ caller.role # ADMIN
             THEN Reply("createUser", auth, data, CallableCatch(PERMISSION_DENIED),
                        users, credentials)
           ELSE IF ~authOk
             THEN Reply("createUser", auth, data, CallableCatch("auth/error"),
                        users, credentials)
           ELSE IF ~storeOk
             THEN Reply("createUser", auth, data, CallableCatch("unavailable"),
                        users, credentials \cup {uid})
           ELSE Reply("createUser", auth, data, OK,
                      (uid :> record) @@ users, credentials \cup {uid})

\* deleteUser; authOk and storeOk tell whether admin.auth().deleteUser and
\* the delete of the user document succeed
deleteUser(auth, data, authOk, storeOk) ==
    LET caller == UserData(auth)
        userToDelete == UserData(data.userId)
    IN  /\ Len(calls) < MaxAdminCalls
        /\ IF AuthCheck(auth) # OK
             THEN Reply("deleteUser", auth, data, AuthCheck(auth), users, credentials)
           ELSE IF caller = NoDoc \/ caller.role # ADMIN
             THEN Reply("deleteUser", auth, data, CallableCatch(PERMISSION_DENIED),
                        users, credentials)
           ELSE IF data.userId = auth
             THEN Reply("deleteUser", auth, data, CallableCatch(INVALID_ARGUMENT),
                        users, credentials)
           ELSE IF userToDelete = NoDoc \/ userToDelete.institution # caller.institution
             THEN Reply("deleteUser", auth, data, CallableCatch(PERMISSION_DENIED),
                        users, credentials)
           ELSE IF ~authOk \/ data.userId \notin credentials
             THEN Reply("deleteUser", auth, data, CallableCatch("auth/error"),
                        users, credentials)
           ELSE IF ~storeOk
             THEN Reply("deleteUser", auth, data, CallableCatch("unavailable"),
                        users, credentials \ {data.userId})
           ELSE Reply("deleteUser", auth, data, OK,
                      [u \in DOMAIN users \ {data.userId} |-> users[u]],
                      credentials \ {data.userId})

InitAdmin ==
    /\ users = SeedUsers
    /\ events = EmptyCollection
    /\ nextEventId = 0
    /\ clock = 0
    /\ triggers = <<>>
    /\ sweeps = <<>>
    /\ notifications = {}
    /\ resolved = NotResolved
    /\ detected = NotDetected
    /\ calls = <<>>
    /\ credentials = DOMAIN users \cup {"ghost"}

CreateUser ==
    \E auth \in Callers, data \in CreateUserInputs, authOk \in BOOLEAN, storeOk \in BOOLEAN :
        createUser(auth, data, authOk, storeOk)
DeleteUser ==
    \E auth \in Callers, userId \in DeleteUserTargets, authOk \in BOOLEAN,
       storeOk \in BOOLEAN :
        deleteUser(auth, [userId |-> userId], authOk, storeOk)

NextAdmin ==
    \/ CreateUser
    \/ DeleteUser

SpecAdmin == InitAdmin /\ [][NextAdmin]_vars

----------------------------------------------------------------------------
(* The notification operations of the client, on the records a committed  *)
(* fan-out has left                                                        *)

\* The change event of an update of the seeded event's location, delivered
\* once, and the batch its handler committed
InboxAfter == UpdateDoc(SeedEvents["e0"], [location |-> "Hall B", updatedAt |-> 1])
InboxBatch == UpdatedBatch(InboxAfter.registrations, Data(InboxAfter, "after"), "e0")
InboxTrigger ==
    [Trigger("updated", "e0", SeedEvents["e0"], InboxAfter) EXCEPT
        !.runs = <<Committed(InboxBatch, TRUE)>>]

\* The signed-in user of a call (Null: none) and the notification ids passed
InboxUsers == {"alice", "bob", Null}
NotificationIds ==
    {<<TriggerInv(1, 1), k>> : k \in 1..Len(InboxBatch)} \cup {<<TriggerInv(9, 9), 1>>}

\* Inputs of createNotification
NotificationInputs ==
    {[userId |-> "bob", type |-> EVENT_UPDATED, message |-> <<"hello">>,
      eventId |-> "e0", link |-> LinkTo("e0"), isRead |-> r] : r \in BOOLEAN}

\* doc(db, 'notifications', id): the stored record, or the snapshot of none
NotificationData(id) ==
    IF \E n \in notifications : n.id = id
    THEN CHOOSE n \in notifications : n.id = id
    ELSE NoDoc

\* The record of a call on notification id, with the record it found and
\* the record it left
InboxCall(op, currentUser, id, result, after) ==
    [op |-> op, auth |-> currentUser, id |-> id, result |-> result,
     before |-> NotificationData(id), after |-> after]

EndInboxCall(op, currentUser, id, result, coll) ==
    /\ Len(calls) < MaxInboxCalls
    /\ notifications' = coll
    /\ calls' = Append(calls,
          InboxCall(op, currentUser, id, result,
                    IF \E n \in coll : n.id = id
                      THEN CHOOSE n \in coll : n.id = id ELSE NoDoc))
    /\ UNCHANGED <<users, events, nextEventId, clock, triggers, sweeps, resolved,
                   detected, credentials>>

\* createNotification: addDoc of the caller's record under a fresh id; it
\* calls no checkAuth
createNotification(notification, storeOk) ==
    LET inv == <<"client", Len(calls) + 1, 1>>
    IN  IF storeOk
        THEN EndInboxCall("create", Null, <<inv, 1>>, OK,
                 notifications \cup {NotificationDoc(inv, 1, notification)})
        ELSE EndInboxCall("create", Null, <<inv, 1>>, INTERNAL_ERROR, notifications)

\* markNotificationAsRead: checkAuth, then updateDoc(ref, {isRead: true});
\* the catch block turns every error into INTERNAL_ERROR
markNotificationAsRead(currentUser, id) ==
    IF checkAuth(currentUser) # OK \/ NotificationData(id) = NoDoc
    THEN EndInboxCall("markRead", currentUser, id, INTERNAL_ERROR, notifications)
    ELSE EndInboxCall("markRead", currentUser, id, OK,
             (notifications \ {NotificationData(id)})
                 \cup {[NotificationData(id) EXCEPT !.isRead = TRUE]})

\* deleteNotification: checkAuth, then deleteDoc(ref), which succeeds also
\* when there is no such document
deleteNotification(currentUser, id) ==
    IF checkAuth(currentUser) # OK
    THEN EndInboxCall("delete", currentUser, id, INTERNAL_ERROR, notifications)
    ELSE EndInboxCall("delete", currentUser, id, OK,
             {n \in notifications : n.id # id})

InitInbox ==
    /\ users = SeedUsers
    /\ events = ("e0" :> InboxAfter)
    /\ nextEventId = 0
    /\ clock = 1
    /\ triggers = <<InboxTrigger>>
    /\ sweeps = <<>>
    /\ notifications = BatchCommit({}, TriggerInv(1, 1), InboxBatch, TRUE)
    /\ resolved = NotResolved
    /\ detected = NotDetected
    /\ calls = <<>>
    /\ credentials = DOMAIN users

CreateNotification ==
    \E notification \in NotificationInputs, storeOk \in BOOLEAN :
        createNotification(notification, storeOk)
MarkNotificationAsRead ==
    \E u \in InboxUsers, id \in NotificationIds : markNotificationAsRead(u, id)
DeleteNotification ==
    \E u \in InboxUsers, id \in NotificationIds : deleteNotification(u, id)

NextInbox ==
    \/ CreateNotification
    \/ MarkNotificationAsRead
    \/ DeleteNotification

SpecInbox == InitInbox /\ [][NextInbox]_vars

----------------------------------------------------------------------------
(* Properties *)

\* the runs of the triggers, as pairs <<trigger, run>>
TriggerRuns ==
    UNION {{<<i, r>> : r \in 1..Len(triggers[i].runs)} : i \in 1..Len(triggers)}

\* the runs of the triggers of one kind
RunsOfKind(kind) == {p \in TriggerRuns : triggers[p[1]].kind = kind}

RunOf(p) == triggers[p[1]].runs[p[2]]

\* the notification documents an invocation has written
WrittenBy(inv) == {n \in notifications : n.inv = inv}

\* the recipients of the documents an invocation has written, in batch order
RecipientsOf(inv, len) ==
    [k \in 1..len |-> (CHOOSE n \in WrittenBy(inv) : n.id = <<inv, k>>).userId]

\* the invocation wrote exactly one document per place 1..len of its batch
WroteExactly(inv, len) ==
    /\ Cardinality(WrittenBy(inv)) = len
    /\ \A k \in 1..len : \E n \in WrittenBy(inv) : n.id = <<inv, k>>

\* a user matches an audience descriptor (spec 3, 4.1)
Matches(user, audience) ==
    CASE audience.type = GENERAL -> TRUE
      [] audience.type = DEPARTMENT -> user.department = audience.value
      [] audience.type = CLASS -> user.class = audience.value

\* the descriptor is one of the variants General, Department(v), Class(v)
WellFormed(audience) == audience.type = GENERAL \/ Truthy(audience.value)

\* the students of an institution that match an audience
AudienceOf(institution, audience) ==
    {u \in DOMAIN users :
        /\ users[u].role = STUDENT
        /\ users[u].institution = institution
        /\ Matches(users[u], audience)}

\* title, date or location differs in value between two stored versions
ValueSignificant(before, after) ==
    \/ before.title # after.title
    \/ before.date # after.date
    \/ before.location # after.location

\* the student ids of a registrations list, in order
StudentIds(registrations) == [k \in 1..Len(registrations) |-> registrations[k].studentId]

\* C1: for every created event whose notification batch commits, the
\* handler has written exactly one event_created notification per student of
\* the event's institution matching its audience, the creator excepted, and
\* none for anyone else; each carries the event's id, its link and
\* isRead = false; and no event_created notification has another origin.
C1_OnCreateFanOut ==
    /\ \A p \in RunsOfKind("created") :
          LET E == triggers[p[1]].after
              inv == TriggerInv(p[1], p[2])
              expected == AudienceOf(E.institution, E.targetAudience) \ {E.creatorId}
          IN  (RunOf(p).phase = "committed" /\ WellFormed(E.targetAudience)) =>
                /\ Cardinality(WrittenBy(inv)) = Cardinality(expected)
                /\ {n.userId : n \in WrittenBy(inv)} = expected
                /\ \A n \in WrittenBy(inv) :
                      /\ n.type = EVENT_CREATED
                      /\ n.eventId = triggers[p[1]].eventId
                      /\ n.link = LinkTo(triggers[p[1]].eventId)
                      /\ n.isRead = FALSE
                      /\ users[n.userId].role = STUDENT
    /\ \A n \in notifications :
          n.type = EVENT_CREATED =>
            \E p \in RunsOfKind("created") :
                n.inv = TriggerInv(p[1], p[2]) /\ RunOf(p).phase = "committed"

\* C1 witness: a student created an event for a general audience, the batch
\* committed, and the other students of the institution hold the records
C1_Witness ==
    \E p \in RunsOfKind("created") :
        LET E == triggers[p[1]].after
        IN  /\ RunOf(p).phase = "committed"
            /\ E.targetAudience.type = GENERAL
            /\ users[E.creatorId].role = STUDENT
            /\ {n.userId : n \in WrittenBy(TriggerInv(p[1], p[2]))} = {"bob", "carol", "dan"}

\* C2: for a General audience, resolve returns every student of the
\* institution, each once, and no one else (no one of another institution)
C2_GeneralAudience ==
    (resolved.institution # Null /\ resolved.audience.type = GENERAL) =>
        /\ Range(resolved.uids) =
              {u \in DOMAIN users : /\ users[u].role = STUDENT
                                    /\ users[u].institution = resolved.institution}
        /\ Len(resolved.uids) = Cardinality(Range(resolved.uids))

\* C2 witness: a General audience resolved to a student while a student of
\* the other institution exists
C2_Witness ==
    /\ resolved.institution # Null
    /\ resolved.audience.type = GENERAL
    /\ Len(resolved.uids) = 1
    /\ \E u \in DOMAIN users : /\ users[u].role = STUDENT
                                /\ users[u].institution # resolved.institution

\* C3: for Department(d) resolve returns exactly the students of the
\* institution whose department is d, and for Class(v) exactly those whose
\* class is v
C3_DepartmentAndClassAudience ==
    (/\ resolved.institution # Null
     /\ resolved.audience.type \in {DEPARTMENT, CLASS}
     /\ Truthy(resolved.audience.value)) =>
        /\ Range(resolved.uids) =
              {u \in DOMAIN users :
                  /\ users[u].role = STUDENT
                  /\ users[u].institution = resolved.institution
                  /\ IF resolved.audience.type = DEPARTMENT
                       THEN users[u].department = resolved.audience.value
                       ELSE users[u].class = resolved.audience.value}
        /\ Len(resolved.uids) = Cardinality(Range(resolved.uids))

\* C3 witness: a Class audience resolved to one student while another student
\* of the institution, of another class, is left out
C3_Witness ==
    /\ resolved.institution # Null
    /\ resolved.audience.type = CLASS
    /\ Truthy(resolved.audience.value)
    /\ Len(resolved.uids) = 1
    /\ \E u \in DOMAIN users :
          /\ users[u].role = STUDENT
          /\ users[u].institution = resolved.institution
          /\ users[u].class \in Classes \ {resolved.audience.value}

\* C4: no notification written by the create, update or delete handler for
\* an event goes to that event's creator
C4_CreatorNeverNotified ==
    \A p \in TriggerRuns :
        LET t == triggers[p[1]]
            E == IF t.kind = "deleted" THEN t.before ELSE t.after
        IN  \A n \in WrittenBy(TriggerInv(p[1], p[2])) : n.userId # E.creatorId

\* C5: the critical-fields test is true exactly when title, date or
\* location differs in value between the two snapshots
C5_SignificantIffValueDiffers ==
    detected.phase = "done" =>
        (detected.critical <=> ValueSignificant(detected.before, detected.after))

\* C6: on an update whose title, date or location differs in value, the
\* handler does not return as insignificant, and when its batch commits it
\* has written exactly one event_updated notification per entry of
\* after.registrations, in order, for that event, and nothing else
C6_OnUpdateFanOut ==
    \A p \in RunsOfKind("updated") :
        LET t == triggers[p[1]]
            inv == TriggerInv(p[1], p[2])
            registrations == t.after.registrations
        IN  ValueSignificant(t.before, t.after) =>
              /\ RunOf(p).phase # "not_critical"
              /\ RunOf(p).phase = "no_registrations" <=> Len(registrations) = 0
              /\ RunOf(p).phase = "committed" =>
                    /\ WroteExactly(inv, Len(registrations))
                    /\ RecipientsOf(inv, Len(registrations)) = StudentIds(registrations)
                    /\ \A n \in WrittenBy(inv) :
                          /\ n.type = EVENT_UPDATED
                          /\ n.eventId = t.eventId
              /\ RunOf(p).phase # "committed" => WrittenBy(inv) = {}

\* C6 witness: an update that changed only the location of an event with 3
\* registrations committed 3 event_updated notifications, and a student of
\* the audience who is not registered holds none
C6_Witness ==
    \E p \in RunsOfKind("updated") :
        LET t == triggers[p[1]]
            inv == TriggerInv(p[1], p[2])
        IN  /\ t.before.location # t.after.location
            /\ t.before.title = t.after.title
            /\ t.before.date = t.after.date
            /\ Len(t.after.registrations) = 3
            /\ RunOf(p).phase = "committed"
            /\ Cardinality(WrittenBy(inv)) = 3
            /\ "dan" \in AudienceOf(t.after.institution, t.after.targetAudience)
            /\ \A n \in WrittenBy(inv) : n.userId # "dan"

\* C7: an update that leaves title, date and location unchanged in value
\* writes no notification
C7_InsignificantUpdateSilent ==
    \A p \in RunsOfKind("updated") :
        LET t == triggers[p[1]]
        IN  ~ValueSignificant(t.before, t.after) =>
              WrittenBy(TriggerInv(p[1], p[2])) = {}

\* C8: on a delete whose batch commits the handler has written exactly one
\* event_cancelled notification per entry of the deleted event's
\* registrations and nothing else; with no registrations it attempts no
\* commit and writes nothing
C8_OnDeleteFanOut ==
    \A p \in RunsOfKind("deleted") :
        LET t == triggers[p[1]]
            inv == TriggerInv(p[1], p[2])
            registrations == t.before.registrations
        IN  /\ RunOf(p).phase = "no_registrations" <=> Len(registrations) = 0
            /\ RunOf(p).phase = "no_registrations" =>
                  RunOf(p).commits = <<>> /\ WrittenBy(inv) = {}
            /\ RunOf(p).phase = "committed" =>
                  /\ WroteExactly(inv, Len(registrations))
                  /\ RecipientsOf(inv, Len(registrations)) = StudentIds(registrations)
                  /\ \A n \in WrittenBy(inv) : n.type = EVENT_CANCELLED
            /\ RunOf(p).phase # "committed" => WrittenBy(inv) = {}

\* C8 witness: one deleted event had 3 registrations and its 3 cancellations
\* are written; another had none and its handler returned without a commit
C8_Witness ==
    /\ \E p \in RunsOfKind("deleted") :
          /\ Len(triggers[p[1]].before.registrations) = 3
          /\ RunOf(p).phase = "committed"
          /\ Cardinality(WrittenBy(TriggerInv(p[1], p[2]))) = 3
    /\ \E p \in RunsOfKind("deleted") :
          /\ Len(triggers[p[1]].before.registrations) = 0
          /\ RunOf(p).phase = "no_registrations"

\* C9: every commit a fan-out attempts holds at most BatchLimit operations
\* (a larger recipient set is split)
C9_CommitsWithinLimit ==
    /\ \A p \in TriggerRuns :
          \A c \in 1..Len(RunOf(p).commits) : RunOf(p).commits[c] <= BatchLimit
    /\ \A j \in 1..Len(sweeps) :
          \A c \in 1..Len(sweeps[j].commits) : sweeps[j].commits[c] <= BatchLimit

\* C10: of the notifications of one invocation (create, update, delete or
\* sweep) either all are persisted or none is
C10_FanOutAtomic ==
    /\ \A p \in TriggerRuns :
          LET inv == TriggerInv(p[1], p[2])
          IN  WrittenBy(inv) = {} \/ WroteExactly(inv, Len(RunOf(p).batch))
    /\ \A j \in 1..Len(sweeps) :
          WrittenBy(SweepInv(j)) = {} \/ WroteExactly(SweepInv(j), Len(sweeps[j].batch))

\* C10 witness: the store refused the commit of a batch of several
\* notifications that was within its limit, and none of them is persisted
C10_Witness ==
    \E p \in TriggerRuns :
        /\ RunOf(p).phase = "failed"
        /\ Len(RunOf(p).batch) \in 2..BatchLimit
        /\ WrittenBy(TriggerInv(p[1], p[2])) = {}

\* the runs of the triggers and of the scheduled job that met a failure
FailedRuns == {p \in TriggerRuns : RunOf(p).phase \in {"error", "failed"}}
FailedSweeps == {j \in 1..Len(sweeps) : sweeps[j].phase \in {"error", "failed"}}

\* C11: a step in which audience resolution, the window query or the batch
\* commit of a handler fails leaves the events collection as it was, and no
\* error leaves the handler: the run ends with nothing thrown
C11_FailuresNotPropagated ==
    [][(FailedRuns' # FailedRuns \/ FailedSweeps' # FailedSweeps) =>
          /\ events' = events
          /\ \A p \in FailedRuns' : triggers'[p[1]].runs[p[2]].thrown = Null
          /\ \A j \in FailedSweeps' : sweeps'[j].thrown = Null]_vars

\* C11 witness: the commit of an update's notifications failed, the handler
\* let no error out, and the updated event is stored as the update left it
C11_Witness ==
    \E p \in FailedRuns :
        LET t == triggers[p[1]]
        IN  /\ t.kind = "updated"
            /\ RunOf(p).phase = "failed"
            /\ RunOf(p).thrown = Null
            /\ t.eventId \in DOMAIN events
            /\ events[t.eventId] = t.after
            /\ WrittenBy(TriggerInv(p[1], p[2])) = {}

\* the events whose date lies in the closed window [now, now + 24h]
InWindow(now) ==
    {e \in DOMAIN events : events[e].date >= now /\ events[e].date <= now + Day}

\* the registration entries of a set of events, as pairs <<event, place>>
EntriesOf(ids) ==
    UNION {{<<e, k>> : k \in 1..Len(events[e].registrations)} : e \in ids}

\* C12: a sweep at time now whose batch commits has written exactly one
\* event_reminder per registration entry of every event dated within
\* [now, now + 24h], each with that event's id and link, and none for an
\* event dated before now or after now + 24h; a sweep that does not commit
\* has written nothing; and no event_reminder has another origin
C12_ReminderSweep ==
    /\ \A j \in 1..Len(sweeps) :
          LET now == sweeps[j].now
              inv == SweepInv(j)
          IN  /\ sweeps[j].phase = "committed" =>
                    /\ Cardinality(WrittenBy(inv)) = Cardinality(EntriesOf(InWindow(now)))
                    /\ \A x \in EntriesOf(InWindow(now)) :
                          Cardinality({n \in WrittenBy(inv) :
                              /\ n.eventId = x[1]
                              /\ n.userId = events[x[1]].registrations[x[2]].studentId}) = 1
                    /\ \A n \in WrittenBy(inv) :
                          /\ n.type = EVENT_REMINDER
                          /\ n.eventId \in InWindow(now)
                          /\ n.link = LinkTo(n.eventId)
                          /\ n.isRead = FALSE
              /\ sweeps[j].phase # "committed" => WrittenBy(inv) = {}
              /\ sweeps[j].phase = "no_events" => InWindow(now) = {}
              /\ sweeps[j].phase = "no_registrations" => EntriesOf(InWindow(now)) = {}
              /\ sweeps[j].phase \in {"built", "committed", "failed"} =>
                    EntriesOf(InWindow(now)) # {}
    /\ \A n \in notifications :
          n.type = EVENT_REMINDER =>
            \E j \in 1..Len(sweeps) : n.inv = SweepInv(j) /\ sweeps[j].phase = "committed"

\* C12 witness: a sweep at now with one event at now + 12h holding 2
\* registrations and one at now + 48h wrote exactly 2 reminders, both for the
\* first event
C12_Witness ==
    \E j \in 1..Len(sweeps) :
        LET now == sweeps[j].now
        IN  /\ sweeps[j].phase = "committed"
            /\ DOMAIN events = {"e0", "e1"}
            /\ events["e0"].date = now + 1
            /\ Len(events["e0"].registrations) = 2
            /\ events["e1"].date = now + 2 * Day
            /\ Len(events["e1"].registrations) > 0
            /\ Cardinality(WrittenBy(SweepInv(j))) = 2
            /\ \A n \in WrittenBy(SweepInv(j)) : n.eventId = "e0"

\* C12 witness of the window's ends: a sweep reminded the registrants of an
\* event dated exactly now and of one dated exactly now + 24h
C12_WitnessEnds ==
    \E j \in 1..Len(sweeps) :
        /\ sweeps[j].phase = "committed"
        /\ DOMAIN events = {"e0", "e1"}
        /\ events["e0"].date = sweeps[j].now
        /\ events["e1"].date = sweeps[j].now + Day
        /\ \E n \in WrittenBy(SweepInv(j)) : n.eventId = "e0"
        /\ \E n \in WrittenBy(SweepInv(j)) : n.eventId = "e1"

\* what an invocation with no recipient leaves behind: no notification of
\* its own, no commit of any operation, and no error let out
NothingWritten(inv, run) ==
    /\ WrittenBy(inv) = {}
    /\ \A c \in 1..Len(run.commits) : run.commits[c] = 0
    /\ run.thrown = Null

\* C13: an invocation whose recipient set is empty writes no notification
\* and ends normally: a create whose audience holds no student but the
\* creator, an update or a delete of an event with no registrations (which
\* return before any commit), and a sweep whose window holds no event or
\* only events without registrations (which attempts no commit)
C13_EmptyFanOutWritesNothing ==
    /\ \A p \in RunsOfKind("created") :
          LET E == triggers[p[1]].after
          IN  (/\ WellFormed(E.targetAudience)
               /\ AudienceOf(E.institution, E.targetAudience) \ {E.creatorId} = {}) =>
                  /\ NothingWritten(TriggerInv(p[1], p[2]), RunOf(p))
                  /\ RunOf(p).batch = <<>>
    /\ \A p \in RunsOfKind("updated") :
          Len(triggers[p[1]].after.registrations) = 0 =>
              /\ NothingWritten(TriggerInv(p[1], p[2]), RunOf(p))
              /\ RunOf(p).phase \in {"no_registrations", "not_critical"}
    /\ \A p \in RunsOfKind("deleted") :
          Len(triggers[p[1]].before.registrations) = 0 =>
              /\ NothingWritten(TriggerInv(p[1], p[2]), RunOf(p))
              /\ RunOf(p).phase = "no_registrations"
    /\ \A j \in 1..Len(sweeps) :
          (sweeps[j].phase # "error" /\ sweeps[j].batch = <<>>) =>
              /\ NothingWritten(SweepInv(j), sweeps[j])
              /\ sweeps[j].commits = <<>>
              /\ sweeps[j].phase = IF sweeps[j].docs = <<>> THEN "no_events"
                                   ELSE "no_registrations"

\* C13 witness: the only student of the audience of a created event is its
\* creator; the handler ran to its end with nothing written and nothing thrown
C13_Witness ==
    \E p \in RunsOfKind("created") :
        LET E == triggers[p[1]].after
        IN  /\ AudienceOf(E.institution, E.targetAudience) = {E.creatorId}
            /\ RunOf(p).phase = "committed"
            /\ NothingWritten(TriggerInv(p[1], p[2]), RunOf(p))

\* C13 witness of the other branches: a delete of an event without
\* registrations returned without a commit, after a sweep that matched that
\* event alone had attempted none
C13_WitnessOthers ==
    /\ \E p \in RunsOfKind("deleted") :
          /\ Len(triggers[p[1]].before.registrations) = 0
          /\ RunOf(p).phase = "no_registrations"
    /\ \E j \in 1..Len(sweeps) : sweeps[j].phase = "no_registrations"

\* the calls of one operation on one event for one student
CallsOf(op, eventId, studentId) ==
    {c \in 1..Len(calls) : /\ calls[c].op = op
                           /\ calls[c].eventId = eventId
                           /\ calls[c].studentId = studentId}

\* call a had ended before call b started
EndedBefore(a, b) == calls[a].phase = "done" /\ calls[a].doneAt < calls[b].readAt

\* no two calls overlap: each had ended before the next started
Sequential == \A c \in 1..(Len(calls) - 1) : EndedBefore(c, c + 1)

\* the entries of a list that belong to a student
EntriesFor(arr, studentId) == {i \in 1..Len(arr) : arr[i].studentId = studentId}

\* C14: a registerForEvent call for a student who was registered by an
\* earlier, finished, successful call (and not unregistered since) ends with
\* ALREADY_EXISTS and leaves the event's document as it found it; and when
\* the calls are made one after the other, the student then has exactly one
\* entry in the registrations
C14_SecondRegisterRejected ==
    \A c1 \in 1..Len(calls), c2 \in 1..Len(calls) :
        (/\ calls[c1].op = "register"
         /\ calls[c1].result = OK
         /\ c2 \in CallsOf("register", calls[c1].eventId, calls[c1].studentId)
         /\ calls[c2].phase = "done"
         /\ EndedBefore(c1, c2)
         /\ \A u \in CallsOf("unregister", calls[c1].eventId, calls[c1].studentId) :
               calls[u].result # OK \/ EndedBefore(u, c1)) =>
            /\ calls[c2].result = ALREADY_EXISTS
            /\ calls[c2].after = calls[c2].before
            /\ Sequential =>
                  Cardinality(EntriesFor(calls[c2].after.registrations,
                                         calls[c2].studentId)) = 1

\* C14 witness: a student registered, then another student registered, then
\* the first registered again and was rejected, the list still holding the
\* two entries
C14_Witness ==
    /\ Len(calls) = 3
    /\ Sequential
    /\ \A c \in 1..3 : calls[c].op = "register" /\ calls[c].phase = "done"
    /\ calls[1].studentId = calls[3].studentId
    /\ calls[2].studentId # calls[1].studentId
    /\ calls[1].result = OK
    /\ calls[2].result = OK
    /\ calls[3].result = ALREADY_EXISTS
    /\ Len(calls[3].after.registrations) = 2

\* C15: a submitFeedback call for a student whose feedback was stored by an
\* earlier, finished, successful call ends with ALREADY_EXISTS and leaves the
\* event's document, and so the first entry, as it found it
C15_SecondFeedbackRejected ==
    \A c1 \in 1..Len(calls), c2 \in 1..Len(calls) :
        (/\ calls[c1].op = "feedback"
         /\ calls[c1].result = OK
         /\ c2 \in CallsOf("feedback", calls[c1].eventId, calls[c1].studentId)
         /\ calls[c2].phase = "done"
         /\ EndedBefore(c1, c2)) =>
            /\ calls[c2].result = ALREADY_EXISTS
            /\ calls[c2].after = calls[c2].before
            /\ \E i \in 1..Len(calls[c2].after.feedback) :
                  /\ calls[c2].after.feedback[i].studentId = calls[c2].studentId
                  /\ calls[c2].after.feedback[i] \in Range(calls[c1].after.feedback)

\* C15 witness: a student's second feedback was rejected and the stored
\* entry is the one the first call wrote
C15_Witness ==
    \E c1 \in 1..Len(calls), c2 \in 1..Len(calls) :
        /\ calls[c1].op = "feedback"
        /\ calls[c1].result = OK
        /\ c2 \in CallsOf("feedback", calls[c1].eventId, calls[c1].studentId)
        /\ EndedBefore(c1, c2)
        /\ calls[c2].result = ALREADY_EXISTS
        /\ events[calls[c2].eventId].feedback = calls[c1].after.feedback
        /\ Len(events[calls[c2].eventId].feedback) = 1

\* C16: in every state, under every interleaving of the reads and writes of
\* registerForEvent, unregisterFromEvent and submitFeedback calls, every
\* event has at most one registration entry and at most one feedback entry
\* per student
C16_OneEntryPerStudent ==
    \A e \in DOMAIN events, s \in Uids :
        /\ Cardinality(EntriesFor(events[e].registrations, s)) <= 1
        /\ Cardinality(EntriesFor(events[e].feedback, s)) <= 1

\* the calls of one callable function
AdminCallsOf(op) == {c \in 1..Len(calls) : calls[c].op = op}

\* C17: deleteUser called by an admin for the admin's own id ends with code
\* invalid-argument, and for a user of another institution with code
\* permission-denied, as the caller sees it; in both cases the target keeps
\* its credential and its user document
C17_DeleteUserRefusals ==
    \A c \in AdminCallsOf("deleteUser") :
        LET call == calls[c]
            caller == call.before.users[call.auth]
            target == call.data.userId
        IN  (/\ call.auth \in DOMAIN call.before.users
             /\ caller.role = ADMIN) =>
               /\ target = call.auth =>
                     /\ call.code = INVALID_ARGUMENT
                     /\ call.after = call.before
               /\ (/\ target # call.auth
                   /\ target \in DOMAIN call.before.users
                   /\ call.before.users[target].institution # caller.institution) =>
                     /\ call.code = PERMISSION_DENIED
                     /\ call.after = call.before

\* C18: createUser called with a caller identity whose user document is
\* missing or has a role other than admin ends with code permission-denied
\* as the caller sees it, and creates neither a credential nor a user document
C18_CreateUserNonAdminDenied ==
    \A c \in AdminCallsOf("createUser") :
        LET call == calls[c]
        IN  (/\ call.auth # Null
             /\ \/ call.auth \notin DOMAIN call.before.users
                \/ call.before.users[call.auth].role # ADMIN) =>
               /\ call.code = PERMISSION_DENIED
               /\ call.after = call.before

\* C19: createUser and deleteUser called with no caller identity end with
\* code unauthenticated and leave the users collection and the credentials
\* as they were
C19_UnauthenticatedRejected ==
    \A c \in 1..Len(calls) :
        calls[c].auth = Null =>
            /\ calls[c].code = UNAUTHENTICATED
            /\ calls[c].after = calls[c].before

\* C19 witness: a createUser call and a deleteUser call of an existing user,
\* both without caller identity, were rejected and every user is still there
C19_Witness ==
    /\ \E c \in AdminCallsOf("createUser") :
          calls[c].auth = Null /\ calls[c].code = UNAUTHENTICATED
    /\ \E c \in AdminCallsOf("deleteUser") :
          /\ calls[c].auth = Null
          /\ calls[c].code = UNAUTHENTICATED
          /\ calls[c].data.userId = "bob"
    /\ users = SeedUsers
    /\ credentials = DOMAIN SeedUsers \cup {"ghost"}

\* C20: in every event_cancelled record the fields eventId and link are
\* absent (not set, rather than set to null or to an empty value), and every
\* event_created, event_updated and event_reminder record carries the id of
\* its event and the link to it
C20_CancellationHasNoReference ==
    \A n \in notifications :
        IF n.type = EVENT_CANCELLED
        THEN n.eventId = Undefined /\ n.link = Undefined
        ELSE /\ n.eventId \in EventIds
             /\ n.link = LinkTo(n.eventId)
             /\ \/ \E p \in TriggerRuns :
                      n.inv = TriggerInv(p[1], p[2]) /\ n.eventId = triggers[p[1]].eventId
                \/ \E j \in 1..Len(sweeps) :
                      n.inv = SweepInv(j) /\ n.eventId \in Range(sweeps[j].docs)

\* the recipients a trigger's handler notifies: the students matching the
\* created event but its creator (a descriptor without a value matching as
\* General), or the registrants of the snapshot
ExpectedRecipients(t) ==
    CASE t.kind = "created" ->
            (IF WellFormed(t.after.targetAudience)
               THEN AudienceOf(t.after.institution, t.after.targetAudience)
               ELSE AudienceOf(t.after.institution, Audience(GENERAL, Undefined)))
            \ {t.after.creatorId}
      [] t.kind = "updated" -> Range(StudentIds(t.after.registrations))
      [] t.kind = "deleted" -> Range(StudentIds(t.before.registrations))

\* the runs of trigger i whose commit the store accepted
CommittedRuns(i) ==
    {r \in 1..Len(triggers[i].runs) : triggers[i].runs[r].phase = "committed"}

\* the records a user holds for trigger i, whatever run wrote them
HeldFor(i, u) ==
    {n \in notifications : n.inv[1] = "trigger" /\ n.inv[2] = i /\ n.userId = u}

\* the sweeps whose commit the store accepted and whose batch notifies user
\* u of event e
CommittedSweepsFor(u, e) ==
    {j \in 1..Len(sweeps) :
        /\ sweeps[j].phase = "committed"
        /\ \E k \in 1..Len(sweeps[j].batch) :
              sweeps[j].batch[k].userId = u /\ sweeps[j].batch[k].eventId = e}

\* C21: nothing is deduplicated across invocations: after n committed runs of
\* the handler for one change event every recipient holds n records for it
\* (and no one else holds any), and after n committed sweeps that remind a
\* registrant of an event the registrant holds n reminders of that event
C21_NoDeduplication ==
    /\ \A i \in 1..Len(triggers), u \in Uids :
          Cardinality(HeldFor(i, u)) =
              IF u \in ExpectedRecipients(triggers[i])
                THEN Cardinality(CommittedRuns(i)) ELSE 0
    /\ \A u \in Uids, e \in EventIds :
          Cardinality({n \in notifications :
                          n.type = EVENT_REMINDER /\ n.userId = u /\ n.eventId = e})
            = Cardinality(CommittedSweepsFor(u, e))

\* C21 witness: the change event of an update was delivered twice, both runs
\* committed, and every one of the 3 registrants holds 2 records for it
C21_Witness ==
    \E i \in 1..Len(triggers) :
        /\ triggers[i].kind = "updated"
        /\ triggers[i].before.location # triggers[i].after.location
        /\ CommittedRuns(i) = {1, 2}
        /\ Len(triggers[i].after.registrations) = 3
        /\ \A u \in ExpectedRecipients(triggers[i]) : Cardinality(HeldFor(i, u)) = 2

\* C21 witness of the scheduled job: two sweeps whose windows hold the same
\* event committed, and a registrant holds 2 reminders of it
C21_WitnessSweeps ==
    \E u \in Uids, e \in EventIds :
        /\ Cardinality(CommittedSweepsFor(u, e)) = 2
        /\ Cardinality({n \in notifications :
                          n.type = EVENT_REMINDER /\ n.userId = u /\ n.eventId = e}) = 2

\* the ids that have a credential but no user document, or a user document
\* but no credential
Unpaired(stores) ==
    (stores.credentials \ DOMAIN stores.users) \cup (DOMAIN stores.users \ stores.credentials)

\* C22: a createUser call that succeeds has added exactly one credential and
\* one user document, under the same id, with the institution of the caller;
\* and no createUser or deleteUser call, however it ended, leaves an id with
\* a credential but no user document or the reverse that was not so before
C22_CredentialIffUserRecord ==
    \A c \in 1..Len(calls) :
        LET call == calls[c]
            newCredentials == call.after.credentials \ call.before.credentials
            newUsers == DOMAIN call.after.users \ DOMAIN call.before.users
        IN  /\ (call.op = "createUser" /\ call.code = OK) =>
                  /\ Cardinality(newCredentials) = 1
                  /\ newUsers = newCredentials
                  /\ \A u \in newUsers :
                        call.after.users[u].institution =
                            call.before.users[call.auth].institution
            /\ Unpaired(call.after) \subseteq Unpaired(call.before)

\* C23: every notification was written by one of the four handlers; no call
\* turns a record's isRead from true to false, and a record is created with
\* isRead false; and a markNotificationAsRead or deleteNotification call by
\* a signed-in user who is not the record's recipient leaves the record as
\* it was
C23_NotificationOwnership ==
    /\ \A n \in notifications : n.inv[1] \in {"trigger", "sweep"}
    /\ \A c \in 1..Len(calls) :
          LET call == calls[c]
          IN  /\ (call.before = NoDoc /\ call.after # NoDoc) => call.after.isRead = FALSE
              /\ (call.before # NoDoc /\ call.after # NoDoc /\ call.before.isRead) =>
                    call.after.isRead
              /\ (/\ call.op \in {"markRead", "delete"}
                  /\ call.auth # Null
                  /\ call.before # NoDoc
                  /\ call.before.userId # call.auth) => call.after = call.before


\* C24: every feedback entry stored on an event has a rating from 1 to 5
C24_RatingInRange ==
    \A e \in DOMAIN events :
        \A i \in 1..Len(events[e].feedback) : events[e].feedback[i].rating \in 1..5


\* the call c ends in this step
EndsNow(c) == calls'[c].phase = "done" /\ (c > Len(calls) \/ calls[c].phase # "done")

\* C25: a registerForEvent, unregisterFromEvent or submitFeedback call made
\* with no signed-in user ends with UNAUTHORIZED in its first step, having
\* read nothing and written nothing; made by a signed-in user on an event
\* id that does not exist, it ends with NOT_FOUND and writes nothing; and an
\* unregisterFromEvent call that read an existing event without a
\* registration of the student ends with NOT_FOUND and leaves the stored
\* events, and so the registrations, as they were
C25_NotFoundAndUnauthorized ==
    [][\A c \in 1..Len(calls') :
          LET call == calls'[c]
          IN  EndsNow(c) =>
                /\ call.auth = Null =>
                      /\ call.result = UNAUTHORIZED
                      /\ c > Len(calls)
                      /\ call.snap = NoDoc
                      /\ events' = events
                /\ (call.auth # Null /\ call.eventId \notin DOMAIN events) =>
                      /\ call.result = NOT_FOUND
                      /\ events' = events
                /\ (/\ call.auth # Null
                    /\ call.op = "unregister"
                    /\ call.snap # NoDoc
                    /\ ~SomeEntry(call.snap.registrations, call.studentId)) =>
                      /\ call.result = NOT_FOUND
                      /\ events' = events]_vars

\* C25 witness: a call without a signed-in user was rejected as
\* unauthorized, and a signed-in user's call on the missing event ended with
\* not-found, the stored event being the seeded one still
C25_Witness ==
    /\ \E c \in 1..Len(calls) :
          /\ calls[c].auth = Null
          /\ calls[c].eventId = "e0"
          /\ calls[c].result = UNAUTHORIZED
    /\ \E c \in 1..Len(calls) :
          /\ calls[c].auth = "alice"
          /\ calls[c].eventId = "e1"
          /\ calls[c].result = NOT_FOUND
    /\ events \in CallStores

\* C25 witness: a signed-in user's unregisterFromEvent for a student who has
\* no registration on the existing event ended with not-found, the list
\* holding the other student's entry as before
C25_WitnessNoRegistration ==
    \E c \in 1..Len(calls) :
        /\ calls[c].op = "unregister"
        /\ calls[c].auth = "alice"
        /\ calls[c].eventId = "e0"
        /\ calls[c].studentId = "bob"
        /\ calls[c].result = NOT_FOUND
        /\ Len(calls[c].snap.registrations) = 1
        /\ events["e0"].registrations = calls[c].snap.registrations


\* arr without the entries of a student
Without(arr, studentId) == SelectSeq(arr, LAMBDA r : r.studentId # studentId)

C26_WitnessOthers ==
    /\ "e0" \in DOMAIN events
    /\ events["e0"].location # SeedEvents["e0"].location
    /\ Len(events["e0"].feedback) = 1
    /\ events["e0"].registrations = SeedEvents["e0"].registrations


\* change event i has been handled: a run of its handler has ended, none is
\* in flight, and every recipient holds a record for it
Served(i) ==
    /\ i <= Len(triggers)
    /\ Len(triggers[i].runs) > 0
    /\ \A r \in 1..Len(triggers[i].runs) : triggers[i].runs[r].phase # "built"
    /\ \A u \in ExpectedRecipients(triggers[i]) : HeldFor(i, u) # {}

\* C27: when triggers are delivered and the store does not fail, every
\* committed creation, update and delete of an event is eventually followed
\* by a state in which the handler's invocation has ended and every student
\* of the created event's audience, or every registrant of the snapshot,
\* holds a record for it
C27_NeverDropped ==
    \A i \in 1..MaxOps : (i <= Len(triggers)) ~> Served(i)


\* a step of a handler: a run of a trigger or of the sweep starts or moves on
HandlerStep ==
    \/ sweeps' # sweeps
    \/ /\ Len(triggers') = Len(triggers)
       /\ \E i \in 1..Len(triggers) : triggers'[i].runs # triggers[i].runs

\* a step in which onEventCreated resolves the audience
ResolveStep ==
    /\ Len(triggers') = Len(triggers)
    /\ \E i \in 1..Len(triggers) :
          /\ triggers[i].kind = "created"
          /\ Len(triggers'[i].runs) = Len(triggers[i].runs) + 1

\* C28: no step of the create, update or delete handler or of the reminder
\* sweep creates, changes or deletes a document of the events or users
\* collections (or a credential), and the step that resolves the audience
\* writes no notification either
C28_HandlersWriteOnlyNotifications ==
    [][/\ HandlerStep => (events' = events /\ users' = users /\ credentials' = credentials)
       /\ ResolveStep => notifications' = notifications]_vars

\* C28 witness: the handler of an update and a sweep have both committed
\* their notifications, and the updated event is stored as the update left
\* it, the users as seeded
C28_Witness ==
    /\ \E p \in RunsOfKind("updated") :
          /\ RunOf(p).phase = "committed"
          /\ triggers[p[1]].eventId \in DOMAIN events
          /\ events[triggers[p[1]].eventId] = triggers[p[1]].after
    /\ \E j \in 1..Len(sweeps) : sweeps[j].phase = "committed"
    /\ users = SeedUsers
    /\ \E n \in notifications : n.type = EVENT_REMINDER

\* C28 witness: the audience of a created event was resolved, no record
\* being written yet
C28_WitnessResolve ==
    /\ \E p \in RunsOfKind("created") :
          RunOf(p).phase = "built" /\ Len(RunOf(p).batch) > 0
    /\ notifications = {}
    /\ users = SeedUsers


\* calls a and b overlap: each started before the other had ended
Overlap(a, b) ==
    /\ calls[a].phase = "done"
    /\ calls[b].phase = "done"
    /\ calls[a].readAt < calls[b].doneAt
    /\ calls[b].readAt < calls[a].doneAt

\* C29: once two registerForEvent calls for two different students on one
\* event have both succeeded, whatever the order of their reads and writes,
\* the event's registrations hold an entry for each of the two students
\* (as long as no unregisterFromEvent call for either has been made)
C29_NoLostRegistration ==
    \A c1 \in 1..Len(calls), c2 \in 1..Len(calls) :
        (/\ calls[c1].op = "register"
         /\ calls[c2].op = "register"
         /\ calls[c1].eventId = calls[c2].eventId
         /\ calls[c1].studentId # calls[c2].studentId
         /\ calls[c1].result = OK
         /\ calls[c2].result = OK
         /\ \A u \in 1..Len(calls) : calls[u].op # "unregister") =>
            /\ SomeEntry(events[calls[c1].eventId].registrations, calls[c1].studentId)
            /\ SomeEntry(events[calls[c1].eventId].registrations, calls[c2].studentId)

\* C29 witness: two calls for alice and bob read the event with no
\* registrations before either wrote, both succeeded, and the list holds
\* the two entries
C29_Witness ==
    \E c1 \in 1..Len(calls), c2 \in 1..Len(calls) :
        /\ calls[c1].op = "register" /\ calls[c1].studentId = "alice"
        /\ calls[c2].op = "register" /\ calls[c2].studentId = "bob"
        /\ calls[c1].result = OK
        /\ calls[c2].result = OK
        /\ Overlap(c1, c2)
        /\ calls[c1].snap.registrations = <<>>
        /\ calls[c2].snap.registrations = <<>>
        /\ Len(events["e0"].registrations) = 2
        /\ SomeEntry(events["e0"].registrations, "alice")
        /\ SomeEntry(events["e0"].registrations, "bob")


\* C30: a descriptor of type department or class whose value is missing or
\* empty resolves to what a General descriptor resolves to: every student of
\* the institution, each once, and no one else
C30_EmptyValueResolvesAsGeneral ==
    (/\ resolved.institution # Null
     /\ resolved.audience.type \in {DEPARTMENT, CLASS}
     /\ ~Truthy(resolved.audience.value)) =>
        /\ resolved.uids =
              getTargetAudience(users, resolved.institution, Audience(GENERAL, Undefined))
        /\ Range(resolved.uids) =
              {u \in DOMAIN users : /\ users[u].role = STUDENT
                                    /\ users[u].institution = resolved.institution}
        /\ Len(resolved.uids) = Cardinality(Range(resolved.uids))

\* C30 witness: a department descriptor with an empty value resolved to the
\* two students of the institution, who are of different departments
C30_Witness ==
    /\ resolved.institution # Null
    /\ resolved.audience = Audience(DEPARTMENT, "")
    /\ Len(resolved.uids) = 2
    /\ users[resolved.uids[1]].department # users[resolved.uids[2]].department

\* C30 witness: a class descriptor without a value resolved to a student
C30_WitnessClass ==
    /\ resolved.institution # Null
    /\ resolved.audience = Audience(CLASS, Undefined)
    /\ Len(resolved.uids) > 0

=============================================================================
